---------------------------- MODULE Spec2Model ----------------------------
(***************************************************************************)
(* A model of the pass -> Bitwarden exporters:                             *)
(*   pass2bitwarden.py           login export (CSV, process pool)          *)
(*   passbankcards2bitwarden.py  bank card export (JSON)                   *)
(*   passnotes2bitwarden.py      secure note export (JSON)                 *)
(*                                                                         *)
(* Python strings are sequences of one-character strings, so that          *)
(* startswith, "in", split, stem, suffixes and capitalize are computed the *)
(* way the interpreter computes them.  A path is the sequence of its       *)
(* segments; the name of the empty path is the empty string, as            *)
(* Path(".").name and Path("/").name are.                                  *)
(***************************************************************************)
EXTENDS Integers, Sequences, FiniteSets, TLC

(***************************************************************************)
(* Bounds of the model.                                                    *)
(***************************************************************************)
MaxFiles == 2
MaxDirs == 2
MaxCardLen == 17

(***************************************************************************)
(* String literals used by the programs.                                   *)
(***************************************************************************)
EmptyStr == << >>
PasswordGpg == <<"p","a","s","s","w","o","r","d",".","g","p","g">>
PasswdGpg == <<"p","a","s","s","w","d",".","g","p","g">>
ConflictStr == <<"c","o","n","f","l","i","c","t">>
PdfStr == <<"p","d","f">>
HttpStr == <<"h","t","t","p">>
HttpsStr == <<"h","t","t","p","s">>
HttpsPrefix == <<"h","t","t","p","s",":","/","/">>
FieldPrefix == <<"F","i","e","l","d"," ">>
ColonSpace == <<":"," ">>
Lowers == <<"a","b","c","d","e","f","g","h","i","j","k","l","m","n","o","p","q","r","s","t","u","v","w","x","y","z">>
Uppers == <<"A","B","C","D","E","F","G","H","I","J","K","L","M","N","O","P","Q","R","S","T","U","V","W","X","Y","Z">>
Digits == <<"0","1","2","3","4","5","6","7","8","9">>
Whitespace == {" ", "\n", "\t", "\r"}

(***************************************************************************)
(* Python str operations.                                                  *)
(***************************************************************************)
\* s.startswith(p)
StartsWith(s, p) == Len(p) <= Len(s) /\ SubSeq(s, 1, Len(p)) = p

\* sub in s
Contains(s, sub) ==
    \E i \in 1..(Len(s) - Len(sub) + 1) : SubSeq(s, i, i + Len(sub) - 1) = sub

\* c in s, for one character
HasChar(s, c) == \E i \in 1..Len(s) : s[i] = c

\* s.rfind(c): 0-based index of the last c, -1 when there is none
RFind(s, c) ==
    IF HasChar(s, c)
    THEN (CHOOSE i \in 1..Len(s) : s[i] = c /\ \A j \in (i+1)..Len(s) : s[j] # c) - 1
    ELSE -1

\* 1-based position of the first c in s, 0 when there is none
FindFirst(s, c) ==
    IF HasChar(s, c)
    THEN CHOOSE i \in 1..Len(s) : s[i] = c /\ \A j \in 1..(i-1) : s[j] # c
    ELSE 0

\* s.split(c): always at least one part
RECURSIVE Split(_, _)
Split(s, c) ==
    LET i == FindFirst(s, c)
    IN IF i = 0 THEN <<s>>
       ELSE <<SubSeq(s, 1, i - 1)>> \o Split(SubSeq(s, i + 1, Len(s)), c)

\* sep.join(parts)
RECURSIVE Join(_, _)
Join(parts, sep) ==
    IF Len(parts) = 0 THEN EmptyStr
    ELSE IF Len(parts) = 1 THEN parts[1]
    ELSE parts[1] \o sep \o Join(Tail(parts), sep)

ToUpper(c) == IF \E i \in 1..26 : Lowers[i] = c
              THEN Uppers[CHOOSE i \in 1..26 : Lowers[i] = c] ELSE c

ToLower(c) == IF \E i \in 1..26 : Uppers[i] = c
              THEN Lowers[CHOOSE i \in 1..26 : Uppers[i] = c] ELSE c

\* s.capitalize(): first character upper-cased, the rest lower-cased
Capitalize(s) ==
    [i \in 1..Len(s) |-> IF i = 1 THEN ToUpper(s[i]) ELSE ToLower(s[i])]

\* s.replace(a, b) for single characters
ReplaceChar(s, a, b) == [i \in 1..Len(s) |-> IF s[i] = a THEN b ELSE s[i]]

\* s.lstrip(c)
RECURSIVE LStripChar(_, _)
LStripChar(s, c) ==
    IF Len(s) > 0 /\ s[1] = c THEN LStripChar(Tail(s), c) ELSE s

\* s.strip(): leading and trailing whitespace removed
RECURSIVE Strip(_)
Strip(s) ==
    IF Len(s) = 0 THEN s
    ELSE IF s[1] \in Whitespace THEN Strip(Tail(s))
    ELSE IF s[Len(s)] \in Whitespace THEN Strip(SubSeq(s, 1, Len(s) - 1))
    ELSE s

\* str(i) for a natural number, as an f-string formats it
RECURSIVE IntToStr(_)
IntToStr(i) ==
    IF i < 10 THEN <<Digits[i + 1]>>
    ELSE IntToStr(i \div 10) \o <<Digits[(i % 10) + 1]>>

(***************************************************************************)
(* pathlib.Path operations.                                                *)
(***************************************************************************)
\* path.name
PathName(p) == IF Len(p) = 0 THEN EmptyStr ELSE p[Len(p)]

\* path.parent
PathParent(p) == IF Len(p) = 0 THEN p ELSE SubSeq(p, 1, Len(p) - 1)

\* path / name
PathJoin(p, name) == Append(p, name)

\* path.stem
PathStem(p) ==
    LET name == PathName(p)
        i == RFind(name, ".")
    IN IF 0 < i /\ i < Len(name) - 1 THEN SubSeq(name, 1, i) ELSE name

\* path.suffixes: every suffix keeps its leading dot
PathSuffixes(p) ==
    LET name == PathName(p)
    IN IF Len(name) > 0 /\ name[Len(name)] = "." THEN << >>
       ELSE LET parts == Split(LStripChar(name, "."), ".")
            IN [k \in 1..(Len(parts) - 1) |-> <<".">> \o parts[k + 1]]

\* x in list
InList(x, list) == \E k \in 1..Len(list) : list[k] = x


(***************************************************************************)
(* Values shared by the three programs.                                    *)
(***************************************************************************)
\* Python's None
None == [tag |-> "None"]

\* the slot of a pool task whose result has not arrived yet
Pending == [tag |-> "Pending"]

\* subprocess.run's CompletedProcess: return code and captured stdout
GpgResult(rc, out) == [returncode |-> rc, stdout |-> out]

\* one logging record: level, message template, the file name interpolated
\* into it (empty when it names no file), the other values interpolated that
\* depend on a file or on its content (the output path, the item count and
\* the configuration of the run-level messages are left out)
LogRecWith(level, msg, arg, detail) ==
    [level |-> level, msg |-> msg, arg |-> arg, detail |-> detail]

\* a logging record that interpolates nothing but a file name
LogRec(level, msg, arg) == LogRecWith(level, msg, arg, << >>)

\* bytes of gpg's output the codec of the locale cannot decode, each written
\* the way UnicodeDecodeError prints it
UndecodableBytes == {"0xe2"}

\* the output of gpg decodes to text
IsDecodable(out) == \A k \in 1..Len(out) : out[k] \notin UndecodableBytes

\* str(UnicodeDecodeError): the values it interpolates are the first byte
\* that cannot be decoded and its 0-based position
DecodeErrorDetail(out) ==
    LET k == CHOOSE i \in 1..Len(out) :
                 /\ out[i] \in UndecodableBytes
                 /\ \A j \in 1..(i - 1) : out[j] \notin UndecodableBytes
    IN << <<out[k]>>, IntToStr(k - 1) >>

\* str(path)
PathStr(p) == Join(p, <<"/">>)

(***************************************************************************)
(* pass2bitwarden.py                                                       *)
(***************************************************************************)
CanonicalNames == <<PasswordGpg, PasswdGpg>>

short_name(filepath) ==
    IF InList(PathName(filepath), CanonicalNames)
    THEN PathName(PathParent(PathParent(filepath))) \o <<"/">>
             \o PathName(PathParent(filepath))
    ELSE PathName(PathParent(filepath)) \o <<"/">> \o PathStem(filepath)

\* IsConflictFile looking for the marker among the suffixes of the name
IsConflictFileBySuffix(filepath) == InList(ConflictStr, PathSuffixes(filepath))

\* the test that guards the skip of syncthing conflict files
IsConflictFile(filepath) == Contains(PathName(filepath), ConflictStr)

\* the test that guards the rejection of encrypted PDF files
IsPdfFile(filepath) == InList(PdfStr, PathSuffixes(filepath))

\* decrypt_gpg_file(filepath), gpg answering res when it is invoked:
\* the returned value, whether gpg was invoked, and the records logged
decrypt_gpg_file(filepath, res) ==
    LET sn == short_name(filepath)
        start == LogRec("INFO", "Decrypting GPG file -> %s ...", sn)
        err(msg) == LogRec("ERROR", msg, sn)
    IN IF IsConflictFile(filepath)
       THEN [value |-> None, invoked |-> FALSE,
             log |-> <<LogRec("INFO", "Skipping syncthing-related conflict file -> %s ...", sn)>>]
       ELSE IF IsPdfFile(filepath)
       THEN [value |-> None, invoked |-> FALSE,
             log |-> <<start, err("Error while executing decrypt_gpg_file(%s)\n\tCan't process GPG-encrypted PDF file -> %s .")>>]
       ELSE IF ~IsDecodable(res.stdout)
       THEN [value |-> None, invoked |-> TRUE,
             log |-> <<start,
                       LogRecWith("ERROR", "Error while executing decrypt_gpg_file(%s)\n\t'utf-8' codec can't decode byte %s in position %s: invalid continuation byte",
                                  sn, DecodeErrorDetail(res.stdout))>>]
       ELSE IF res.returncode # 0
       THEN [value |-> None, invoked |-> TRUE,
             log |-> <<start, err("Error while executing decrypt_gpg_file(%s)\n\tFailed to decrypt -> %s .")>>]
       ELSE IF res.stdout = EmptyStr
       THEN [value |-> None, invoked |-> TRUE,
             log |-> <<start, err("Error while executing decrypt_gpg_file(%s)\n\tEmpty decrypted content -> %s .")>>]
       ELSE [value |-> [tag |-> "Some", path |-> filepath, text |-> res.stdout],
             invoked |-> TRUE,
             log |-> <<start, LogRec("INFO", "OK Decrypted GPG file -> %s .", sn)>>]

\* format_uri_fn of write_website_password
format_uri_fn(path) ==
    LET uri == PathName(PathParent(path))
    IN IF ~StartsWith(uri, HttpStr) /\ ~StartsWith(uri, HttpsStr)
       THEN HttpsPrefix \o uri
       ELSE uri

\* FieldEntry with the numbering started at one
FieldEntryOneBased(i, field) ==
    FieldPrefix \o IntToStr(i + 1) \o ColonSpace \o field

\* f"Field {i}: {field}"
FieldEntry(i, field) == FieldPrefix \o IntToStr(i) \o ColonSpace \o field

\* [f"Field {i}: {field}" for i, field in enumerate(fields) if field],
\* from the element at 1-based position k on
RECURSIVE FieldList(_, _)
FieldList(fields, k) ==
    IF k > Len(fields) THEN << >>
    ELSE (IF fields[k] # EmptyStr THEN <<FieldEntry(k - 1, fields[k])>> ELSE << >>)
         \o FieldList(fields, k + 1)

\* the fields column: the lines after the first, labelled and joined
format_fields(password_text) ==
    LET password_and_fields == Split(password_text, "\n")
        fields == IF Len(password_and_fields) > 1
                  THEN Tail(password_and_fields) ELSE << >>
    IN Join(FieldList(fields, 1), <<",">>)

\* get_parent_name of write_website_password
get_parent_name(path) ==
    LET parent_name == IF InList(PathName(path), CanonicalNames)
                       THEN PathName(PathParent(PathParent(path)))
                       ELSE PathName(PathParent(path))
        parts == Split(parent_name, ".")
    IN IF ~HasChar(parent_name, ".") THEN Capitalize(parent_name)
       ELSE Capitalize(Join(SubSeq(parts, 1, Len(parts) - 1), <<".">>))

\* the login_uri column
login_uri_of(path) ==
    LET raw == IF InList(PathName(path), CanonicalNames)
               THEN PathName(PathParent(PathParent(path)))
               ELSE PathName(PathParent(path))
    IN IF HasChar(raw, ".") THEN format_uri_fn(path) ELSE EmptyStr

\* the login_username column
login_username_of(path) ==
    IF InList(PathName(path), CanonicalNames)
    THEN PathName(PathParent(path))
    ELSE PathStem(path)

\* the row write_website_password hands to csvwriter.writerow
write_website_password(path, password_text, folder_) ==
    [folder |-> folder_,
     favorite |-> 0,
     type |-> "login",
     name |-> get_parent_name(path),
     notes |-> EmptyStr,
     fields |-> format_fields(password_text),
     reprompt |-> 0,
     login_uri |-> login_uri_of(path),
     login_username |-> login_username_of(path),
     login_password |-> Split(password_text, "\n")[1],
     login_totp |-> EmptyStr]

\* the two records write_website_password logs around the row
write_log(path) ==
    <<LogRec("INFO", "Writing password for -> %s...", short_name(path)),
      LogRec("INFO", "OK Wrote password for -> %s ...",
             PathStr(PathParent(path)) \o <<"/">> \o PathStem(path))>>

\* the header row of the CSV file
CsvHeader ==
    <<"#folder", "favorite", "type", "name", "notes", "fields", "reprompt",
      "login_uri", "login_username", "login_password", "login_totp">>


(***************************************************************************)
(* The inputs of the login exporter.                                       *)
(***************************************************************************)
StoreDir == <<"s","t","o","r","e">>
ExampleCom == <<"e","x","a","m","p","l","e",".","c","o","m">>
HttpbinOrg == <<"h","t","t","p","b","i","n",".","o","r","g">>
BankDir == <<"b","a","n","k">>
AliceDir == <<"a","l","i","c","e">>
BobDir == <<"b","o","b">>
DottedDir == <<"a",".","b">>
AliceMailGpg == <<"a","l","i","c","e","@","m","a","i","l",".","c","o","m",".","g","p","g">>
CarolGpg == <<"c","a","r","o","l",".","g","p","g">>
BobGpg == <<"b","o","b",".","g","p","g">>
StatementPdfGpg == <<"s","t","a","t","e","m","e","n","t",".","p","d","f",".","g","p","g">>
BobConflictGpg == <<"b","o","b",".","s","y","n","c","-","c","o","n","f","l","i","c","t","-","1",".","g","p","g">>
RootGpg == <<"r","o","o","t",".","g","p","g">>

\* decrypted contents
TextScenario == <<"s","3","c","r","e","t","\n","r","e","c","o","v","e","r","y","c","o","d","e",":"," ","1","2","3">>
TextOneLine == <<"p","w">>
TextBlankLine == <<"p","w","\n","\n","u",":"," ","a","\n">>
TextTwoFields == <<"p","\n","a","\n","b">>
TextEmptyFirst == <<"\n","x">>
TextBinary == <<"h","u","n","t","e","r","2","0xe2","\n">>

\* files the recursive search of the batch runs can yield, the search root first
LoginPaths ==
    { <<StoreDir, ExampleCom, AliceMailGpg>>,
      <<StoreDir, ExampleCom, AliceDir, PasswordGpg>>,
      <<StoreDir, BankDir, BobGpg>>,
      <<StoreDir, ExampleCom, StatementPdfGpg>>,
      <<StoreDir, BankDir, BobConflictGpg>>,
      <<StoreDir, RootGpg>> }

\* files handed to write_website_password when it is examined on its own
WritePaths ==
    LoginPaths \cup
    { <<StoreDir, HttpbinOrg, CarolGpg>>,
      <<StoreDir, HttpbinOrg, AliceDir, PasswordGpg>>,
      <<StoreDir, BankDir, BobDir, PasswdGpg>>,
      <<StoreDir, BankDir, DottedDir, PasswordGpg>>,
      <<StoreDir, ExampleCom, DottedDir, PasswdGpg>>,
      <<StoreDir, PasswordGpg>>,
      <<StoreDir, DottedDir, CarolGpg>> }

\* non-empty texts a successful decryption can hand over
WriteTexts ==
    {TextScenario, TextOneLine, TextBlankLine, TextTwoFields, TextEmptyFirst}

\* what gpg can answer for a file of a batch run
GpgOutcomes ==
    { GpgResult(2, EmptyStr), GpgResult(0, EmptyStr), GpgResult(0, TextScenario),
      GpgResult(0, TextBinary) }

\* --folder values
Folders == { EmptyStr, <<"W","e","b">> }

\* -j values: negative, zero, sequential, pools
WorkerCounts == {-1, 0, 1, 2, 3}

\* the sequences of distinct elements of S of length at most n
RECURSIVE DistinctSeqs(_, _)
DistinctSeqs(S, n) ==
    IF n = 0 THEN { << >> }
    ELSE LET shorter == DistinctSeqs(S, n - 1)
         IN shorter \cup
            { Append(q, x) : <<q, x>> \in
                { y \in shorter \X S :
                    Len(y[1]) = n - 1 /\ \A k \in 1..Len(y[1]) : y[1][k] # y[2] } }

\* the elements of a sequence
Range(q) == { q[k] : k \in 1..Len(q) }

\* what password_iterator can yield: the files found under each of the given
\* directories in turn, so that a directory given twice, or given together
\* with a directory above it, yields its files once more
Enumerations ==
    DistinctSeqs(LoginPaths, MaxFiles) \cup
    { q \o q : q \in DistinctSeqs(LoginPaths, MaxFiles \div 2) \ { << >> } }

(***************************************************************************)
(* State.                                                                  *)
(***************************************************************************)
VARIABLES
    script,         \* the program that runs: "login", "card", "note", "brand"
    pc,             \* the position of main
    out_state,      \* the output path: "absent", "exists", "dir", "open", "closed"
    out_rows,       \* what has been written to the output file
    folder,         \* --folder
    num_processes,  \* -j
    input_files,    \* the files main enumerates, in enumeration order
    gpg_world,      \* what gpg answers for each file
    next_task,      \* the next element of the iterable to be handed out
    running,        \* pool tasks handed to a worker and not finished
    results,        \* the values of decrypt_gpg_file, by position
    decrypted,      \* the results that are not None
    widx,           \* the position of the loop that writes or exports
    gpg_calls,      \* the files gpg was invoked on, in order
    log,            \* the logging records, in order
    note_args,      \* -i of the note exporter
    card_dirs,      \* -d of the card exporter
    card_number,    \* the argument of determine_card_type
    brand,          \* the value determine_card_type returned
    reprompt        \* --reprompt of the note exporter

vars == <<script, pc, out_state, out_rows, folder, num_processes, input_files,
          gpg_world, next_task, running, results, decrypted, widx, gpg_calls,
          log, note_args, card_dirs, card_number, brand, reprompt>>

(***************************************************************************)
(* pass2bitwarden.py: main                                                 *)
(***************************************************************************)
\* PoolStore keeping only the value that arrived last
PoolStoreLatestOnly(res, i, value) ==
    [k \in DOMAIN res |-> IF k = i THEN value ELSE None]

\* PoolStore handing the values over in the order the tasks finish
PoolStoreInArrivalOrder(res, i, value) ==
    LET free == CHOOSE k \in DOMAIN res :
                    /\ res[k] = Pending
                    /\ \A j \in DOMAIN res : j < k => res[j] # Pending
    IN [res EXCEPT ![free] = value]

\* where pool.map puts the value of task i
PoolStore(res, i, value) == [res EXCEPT ![i] = value]

\* [x for x in password_names_to_decrypted_texts if x is not None]
FilterNotNone(res) == SelectSeq(res, LAMBDA r : r # None)

\* decrypt_gpg_file runs on element i of the iterable
RunDecrypt(i) ==
    LET f == input_files[i]
        d == decrypt_gpg_file(f, gpg_world[f])
    IN /\ results' = PoolStore(results, i, d.value)
       /\ gpg_calls' = IF d.invoked THEN Append(gpg_calls, f) ELSE gpg_calls
       /\ log' = log \o d.log

\* sanity checks: the output path is a directory or exists, main raises
LoginRejectOutput ==
    /\ script = "login" /\ pc = "start"
    /\ out_state \in {"dir", "exists"}
    /\ pc' = "crashed"
    /\ UNCHANGED <<script, out_state, out_rows, folder, num_processes,
                   input_files, gpg_world, next_task, running, results,
                   decrypted, widx, gpg_calls, log, note_args, card_dirs,
                   card_number, brand, reprompt>>

\* sanity checks passed; the configuration is printed
LoginSanityOk ==
    /\ script = "login" /\ pc = "start"
    /\ out_state \notin {"dir", "exists"}
    /\ log' = log \o <<LogRec("INFO", "Writing passwords to output file -> %s ...", EmptyStr),
                       LogRec("INFO", "Configuration", EmptyStr)>>
    /\ pc' = "dispatch"
    /\ UNCHANGED <<script, out_state, out_rows, folder, num_processes,
                   input_files, gpg_world, next_task, running, results,
                   decrypted, widx, gpg_calls, note_args, card_dirs,
                   card_number, brand, reprompt>>

\* num_processes == 1: map() is lazy, nothing is decrypted yet
LoginMapLazy ==
    /\ script = "login" /\ pc = "dispatch"
    /\ num_processes = 1
    /\ pc' = "open"
    /\ UNCHANGED <<script, out_state, out_rows, folder, num_processes,
                   input_files, gpg_world, next_task, running, results,
                   decrypted, widx, gpg_calls, log, note_args, card_dirs,
                   card_number, brand, reprompt>>

\* Pool(processes=n) raises ValueError for n < 1
LoginPoolInvalid ==
    /\ script = "login" /\ pc = "dispatch"
    /\ num_processes # 1 /\ num_processes < 1
    /\ pc' = "crashed"
    /\ UNCHANGED <<script, out_state, out_rows, folder, num_processes,
                   input_files, gpg_world, next_task, running, results,
                   decrypted, widx, gpg_calls, log, note_args, card_dirs,
                   card_number, brand, reprompt>>

\* Pool(processes=n) starts its workers and pool.map queues the tasks
LoginPoolStart ==
    /\ script = "login" /\ pc = "dispatch"
    /\ num_processes > 1
    /\ pc' = "pool"
    /\ UNCHANGED <<script, out_state, out_rows, folder, num_processes,
                   input_files, gpg_world, next_task, running, results,
                   decrypted, widx, gpg_calls, log, note_args, card_dirs,
                   card_number, brand, reprompt>>

\* an idle worker takes the next task off the queue
PoolTaskStart ==
    /\ script = "login" /\ pc = "pool"
    /\ next_task <= Len(input_files)
    /\ Cardinality(running) < num_processes
    /\ running' = running \cup {next_task}
    /\ next_task' = next_task + 1
    /\ UNCHANGED <<script, pc, out_state, out_rows, folder, num_processes,
                   input_files, gpg_world, results, decrypted, widx,
                   gpg_calls, log, note_args, card_dirs,
                   card_number, brand, reprompt>>

\* a worker runs decrypt_gpg_file on its task and sends the value back
PoolTaskFinish ==
    /\ script = "login" /\ pc = "pool"
    /\ \E i \in running :
          /\ RunDecrypt(i)
          /\ running' = running \ {i}
    /\ UNCHANGED <<script, pc, out_state, out_rows, folder, num_processes,
                   input_files, gpg_world, next_task, decrypted, widx,
                   note_args, card_dirs,
                   card_number, brand, reprompt>>

\* pool.map returns when every task has finished; the pool is closed
PoolJoin ==
    /\ script = "login" /\ pc = "pool"
    /\ next_task > Len(input_files) /\ running = {}
    /\ pc' = "open"
    /\ UNCHANGED <<script, out_state, out_rows, folder, num_processes,
                   input_files, gpg_world, next_task, running, results,
                   decrypted, widx, gpg_calls, log, note_args, card_dirs,
                   card_number, brand, reprompt>>

\* open(output_path, "w") and the header row
LoginOpenOutput ==
    /\ script = "login" /\ pc = "open"
    /\ out_state' = "open"
    /\ out_rows' = <<CsvHeader>>
    /\ pc' = "collect"
    /\ UNCHANGED <<script, folder, num_processes, input_files, gpg_world,
                   next_task, running, results, decrypted, widx, gpg_calls,
                   log, note_args, card_dirs, card_number, brand, reprompt>>

\* the list comprehension draws the next element of the lazy map
LoginMapNext ==
    /\ script = "login" /\ pc = "collect"
    /\ num_processes = 1
    /\ next_task <= Len(input_files)
    /\ RunDecrypt(next_task)
    /\ next_task' = next_task + 1
    /\ UNCHANGED <<script, pc, out_state, out_rows, folder, num_processes,
                   input_files, gpg_world, running, decrypted, widx,
                   note_args, card_dirs,
                   card_number, brand, reprompt>>

\* the list comprehension is complete: the None values are dropped
LoginFilter ==
    /\ script = "login" /\ pc = "collect"
    /\ next_task > Len(input_files)
    /\ decrypted' = FilterNotNone(results)
    /\ widx' = 1
    /\ pc' = "write"
    /\ UNCHANGED <<script, out_state, out_rows, folder, num_processes,
                   input_files, gpg_world, next_task, running, results,
                   gpg_calls, log, note_args, card_dirs,
                   card_number, brand, reprompt>>

\* one turn of the loop over the decrypted texts: write_website_password
LoginWriteRow ==
    /\ script = "login" /\ pc = "write"
    /\ widx <= Len(decrypted)
    /\ out_rows' = Append(out_rows,
                          write_website_password(decrypted[widx].path,
                                                 decrypted[widx].text, folder))
    /\ log' = log \o write_log(decrypted[widx].path)
    /\ widx' = widx + 1
    /\ UNCHANGED <<script, pc, out_state, folder, num_processes, input_files,
                   gpg_world, next_task, running, results, decrypted,
                   gpg_calls, note_args, card_dirs,
                   card_number, brand, reprompt>>

\* the loop is over: the file is closed and main returns
LoginDone ==
    /\ script = "login" /\ pc = "write"
    /\ widx > Len(decrypted)
    /\ out_state' = "closed"
    /\ log' = Append(log, LogRec("INFO", "Done writing passwords to output file -> %s .", EmptyStr))
    /\ pc' = "done"
    /\ UNCHANGED <<script, out_rows, folder, num_processes, input_files,
                   gpg_world, next_task, running, results, decrypted, widx,
                   gpg_calls, note_args, card_dirs,
                   card_number, brand, reprompt>>

\* the state after argument parsing
InitLogin ==
    /\ script = "login" /\ pc = "start"
    /\ out_state \in {"absent", "exists", "dir"}
    /\ out_rows = << >>
    /\ folder = EmptyStr
    /\ num_processes \in WorkerCounts
    /\ input_files \in Enumerations
    /\ gpg_world \in [Range(input_files) -> GpgOutcomes]
    /\ next_task = 1 /\ running = {}
    /\ results = [k \in 1..Len(input_files) |-> Pending]
    /\ decrypted = << >> /\ widx = 1
    /\ gpg_calls = << >> /\ log = << >>
    /\ note_args = << >> /\ card_dirs = << >>
    /\ card_number = EmptyStr /\ brand = ""
    /\ reprompt = FALSE

NextLogin ==
    \/ LoginRejectOutput \/ LoginSanityOk \/ LoginMapLazy \/ LoginPoolInvalid
    \/ LoginPoolStart \/ PoolTaskStart \/ PoolTaskFinish \/ PoolJoin
    \/ LoginOpenOutput \/ LoginMapNext \/ LoginFilter \/ LoginWriteRow
    \/ LoginDone

(***************************************************************************)
(* write_website_password on its own: one decrypted file, one row.         *)
(***************************************************************************)
InitWrite ==
    /\ script = "login" /\ pc = "write"
    /\ out_state = "open"
    /\ out_rows = <<CsvHeader>>
    /\ folder \in Folders
    /\ num_processes = 1
    /\ \E p \in WritePaths, t \in WriteTexts :
          /\ input_files = <<p>>
          /\ gpg_world = [f \in {p} |-> GpgResult(0, t)]
          /\ results = <<[tag |-> "Some", path |-> p, text |-> t]>>
          /\ decrypted = <<[tag |-> "Some", path |-> p, text |-> t]>>
    /\ next_task = 2 /\ running = {}
    /\ widx = 1
    /\ gpg_calls = input_files /\ log = << >>
    /\ note_args = << >> /\ card_dirs = << >>
    /\ card_number = EmptyStr /\ brand = ""
    /\ reprompt = FALSE

NextWrite == LoginWriteRow

SpecWrite == InitWrite /\ [][NextWrite]_vars

(***************************************************************************)
(* passbankcards2bitwarden.py                                              *)
(***************************************************************************)
GpgExt == <<".","g","p","g">>

\* short_name of passbankcards2bitwarden.py and of pass_bitwarden/utils.py
short_name_plain(filepath) ==
    PathName(PathParent(filepath)) \o <<"/">> \o PathStem(filepath)

\* decode_gpg_file under catch_and_log_exception, gpg answering res:
\* the returned value and the records logged; gpg is always invoked
decode_gpg_file(filepath, res) ==
    LET sn == short_name_plain(filepath)
    IN IF ~IsDecodable(res.stdout)
       THEN [value |-> None,
             log |-> <<LogRecWith("ERROR", "Error: 'utf-8' codec can't decode byte %s in position %s: invalid continuation byte",
                                  EmptyStr, DecodeErrorDetail(res.stdout))>>]
       ELSE IF res.returncode # 0
       THEN [value |-> None,
             log |-> <<LogRec("ERROR", "Error: Failed to decrypt -> %s .", sn)>>]
       ELSE IF res.stdout = EmptyStr
       THEN [value |-> None,
             log |-> <<LogRec("ERROR", "Error: Empty decrypted content -> %s .", sn)>>]
       ELSE [value |-> [tag |-> "Some", text |-> res.stdout],
             log |-> <<LogRec("INFO", "Decrypted GPG file -> %s .", sn)>>]

\* determine_card_type: "and" binds tighter than "or"
determine_card_type(number) ==
    IF StartsWith(number, <<"4">>) /\ Len(number) \in {13, 16} THEN "Visa"
    ELSE IF StartsWith(number, <<"5">>) /\ Len(number) = 16 THEN "Mastercard"
    ELSE IF \/ StartsWith(number, <<"3","4">>)
            \/ (StartsWith(number, <<"3","7">>) /\ Len(number) = 15) THEN "Amex"
    ELSE ""

\* the names of the files of a card directory, without the extension
RoleName ==
    [number |-> <<"n","u","m","b","e","r">>, ccv |-> <<"c","c","v">>,
     date |-> <<"d","a","t","e">>, name |-> <<"n","a","m","e">>,
     pin |-> <<"p","i","n">>]

\* the files main requires in every card directory
RequiredRoles == <<"number", "ccv", "date", "name">>

\* dir_path / f"{fname}.gpg"
RolePath(card, role) == PathJoin(card.path, RoleName[role] \o GpgExt)

\* what gpg answers for a file of a card directory
CardGpg(card, role) ==
    IF role \in card.entries THEN card.gpg[role] ELSE GpgResult(2, EmptyStr)

\* the _decode calls of export_bank_card, in order; pin only if it is a file
DecodeOrder(card) ==
    RequiredRoles \o (IF "pin" \in card.entries THEN <<"pin">> ELSE << >>)

\* _decode(fname) before .strip()
CardDecode(card, role) == decode_gpg_file(RolePath(card, role), CardGpg(card, role))

\* _decode(fname): the stripped text; only used where the decoding succeeded
CardText(card, role) == Strip(CardDecode(card, role).value.text)

\* the statement of export_bank_card that uses role raises: .strip() of None,
\* or the unpacking of a split of the date that has not two parts
StepRaises(card, role) ==
    \/ CardDecode(card, role).value = None
    \/ role = "date" /\ Len(Split(CardText(card, role), "/")) # 2

\* the position in DecodeOrder of the first statement that raises, 0 if none
FirstRaise(card) ==
    LET order == DecodeOrder(card)
        bad == {k \in 1..Len(order) : StepRaises(card, order[k])}
    IN IF bad = {} THEN 0 ELSE CHOOSE k \in bad : \A j \in bad : k <= j

\* the _decode calls export_bank_card makes before it returns or raises
DecodesMade(card) ==
    IF FirstRaise(card) = 0 THEN DecodeOrder(card)
    ELSE SubSeq(DecodeOrder(card), 1, FirstRaise(card))

RECURSIVE Flatten(_)
Flatten(qs) == IF Len(qs) = 0 THEN << >> ELSE Head(qs) \o Flatten(Tail(qs))

\* the dictionary export_bank_card returns
CardItem(card) ==
    [type |-> 3,
     reprompt |-> 0,
     name |-> Capitalize(ReplaceChar(ReplaceChar(PathName(card.path), "-", " "), "_", " ")),
     notes |-> None,
     favorite |-> FALSE,
     fields |-> IF "pin" \in card.entries
                THEN <<[name |-> "pin", value |-> CardText(card, "pin"), type |-> 1]>>
                ELSE << >>,
     card |-> [cardholderName |-> CardText(card, "name"),
               number |-> CardText(card, "number"),
               expMonth |-> Split(CardText(card, "date"), "/")[1],
               expYear |-> Split(CardText(card, "date"), "/")[2],
               code |-> CardText(card, "ccv"),
               brand |-> determine_card_type(CardText(card, "number"))]]

\* export_bank_card(dir_path): whether it returned, the dictionary, the files
\* gpg was invoked on and the records logged
export_bank_card(card) ==
    LET made == DecodesMade(card)
        sn == short_name_plain(card.path)
        ok == FirstRaise(card) = 0
    IN [ok |-> ok,
        item |-> IF ok THEN CardItem(card) ELSE None,
        calls |-> [k \in 1..Len(made) |-> RolePath(card, made[k])],
        log |-> <<LogRec("INFO", "Exporting bank card details from -> %s ...", sn)>>
                \o Flatten([k \in 1..Len(made) |-> CardDecode(card, made[k]).log])
                \o (IF ok
                    THEN <<LogRec("INFO", "Exported bank card details from -> %s .", sn)>>
                    ELSE << >>)]

\* the sanity checks hold for one directory: it is a directory and has the
\* four required files
CardDirOk(card) ==
    /\ card.is_dir
    /\ \A k \in 1..Len(RequiredRoles) : RequiredRoles[k] \in card.entries

\* the sanity loop looking at the first directory only
SanityFirstDirOnly(dirs) == Len(dirs) = 0 \/ CardDirOk(dirs[1])

\* the sanity loop of main passes for every input directory
SanityChecksPass(dirs) == \A k \in 1..Len(dirs) : CardDirOk(dirs[k])

(***************************************************************************)
(* The inputs of the card exporter.                                        *)
(***************************************************************************)
CardsDir == <<"c","a","r","d","s">>
MyVisa == <<"m","y","-","v","i","s","a">>
OldAmex == <<"o","l","d","_","a","m","e","x">>
DateGood == <<"0","4","/","2","7","\n">>
DateNoSlash == <<"0","4","2","7","\n">>
DateTwoSlashes == <<"0","4","/","2","7","/","0","1","\n">>
CcvText == <<"1","2","3","\n">>
HolderText == <<"A"," ","B","\n">>
BlankText == <<" "," ","\n">>
PinText == <<"9","8","7","6","\n">>

\* prefix followed by zeros up to length n
PadNumber(prefix, n) ==
    [i \in 1..n |-> IF i <= Len(prefix) THEN prefix[i] ELSE "0"]

AllRoles == {"number", "ccv", "date", "name", "pin"}

\* a card directory whose files all decrypt, with a 13-digit number
GoodGpg ==
    [number |-> GpgResult(0, PadNumber(<<"4">>, 13) \o <<"\n">>),
     ccv |-> GpgResult(0, CcvText),
     date |-> GpgResult(0, DateGood),
     name |-> GpgResult(0, HolderText),
     pin |-> GpgResult(0, PinText)]

CardDir(name, is_dir, entries, gpg) ==
    [path |-> <<CardsDir, name>>, is_dir |-> is_dir, entries |-> entries,
     gpg |-> gpg]

\* the card directories a run can be given
CardFixtures ==
    { CardDir(MyVisa, TRUE, AllRoles \ {"pin"}, GoodGpg),
      CardDir(OldAmex, TRUE, AllRoles,
              [GoodGpg EXCEPT !.number = GpgResult(0, PadNumber(<<"3","7">>, 15))]),
      CardDir(<<"n","o","c","c","v">>, TRUE, AllRoles \ {"ccv", "pin"}, GoodGpg),
      CardDir(<<"n","o","s","l","a","s","h">>, TRUE, AllRoles \ {"pin"},
              [GoodGpg EXCEPT !.date = GpgResult(0, DateNoSlash)]),
      CardDir(<<"t","w","o","s","l","a","s","h">>, TRUE, AllRoles \ {"pin"},
              [GoodGpg EXCEPT !.date = GpgResult(0, DateTwoSlashes)]),
      CardDir(<<"n","o","k","e","y">>, TRUE, AllRoles \ {"pin"},
              [GoodGpg EXCEPT !.number = GpgResult(2, EmptyStr)]),
      CardDir(<<"e","m","p","t","y">>, TRUE, AllRoles \ {"pin"},
              [GoodGpg EXCEPT !.name = GpgResult(0, EmptyStr)]),
      CardDir(<<"b","a","d","p","i","n">>, TRUE, AllRoles,
              [GoodGpg EXCEPT !.pin = GpgResult(2, EmptyStr)]),
      CardDir(<<"b","l","a","n","k">>, TRUE, AllRoles \ {"pin"},
              [GoodGpg EXCEPT !.ccv = GpgResult(0, BlankText)]),
      CardDir(<<"n","o","n","a","m","e">>, TRUE, AllRoles \ {"pin"},
              [GoodGpg EXCEPT !.name = GpgResult(0, BlankText)]),
      CardDir(<<"f","i","l","e">>, FALSE, {}, GoodGpg) }

(***************************************************************************)
(* passbankcards2bitwarden.py: main                                        *)
(***************************************************************************)
\* non_existing_file: argparse rejects an output path that exists
CardRejectOutput ==
    /\ script = "card" /\ pc = "start"
    /\ out_state # "absent"
    /\ pc' = "crashed"
    /\ UNCHANGED <<script, out_state, out_rows, folder, num_processes,
                   input_files, gpg_world, next_task, running, results,
                   decrypted, widx, gpg_calls, log, note_args, card_dirs,
                   card_number, brand, reprompt>>

\* the sanity loop raises for some input directory
CardSanityFail ==
    /\ script = "card" /\ pc = "start"
    /\ out_state = "absent"
    /\ ~SanityChecksPass(card_dirs)
    /\ pc' = "crashed"
    /\ UNCHANGED <<script, out_state, out_rows, folder, num_processes,
                   input_files, gpg_world, next_task, running, results,
                   decrypted, widx, gpg_calls, log, note_args, card_dirs,
                   card_number, brand, reprompt>>

\* the sanity loop passes for every input directory
CardSanityOk ==
    /\ script = "card" /\ pc = "start"
    /\ out_state = "absent"
    /\ SanityChecksPass(card_dirs)
    /\ pc' = "export"
    /\ UNCHANGED <<script, out_state, out_rows, folder, num_processes,
                   input_files, gpg_world, next_task, running, results,
                   decrypted, widx, gpg_calls, log, note_args, card_dirs,
                   card_number, brand, reprompt>>

\* one turn of the export loop in which export_bank_card returns
CardExportOk ==
    /\ script = "card" /\ pc = "export"
    /\ widx <= Len(card_dirs)
    /\ LET e == export_bank_card(card_dirs[widx])
       IN /\ e.ok
          /\ results' = Append(results, e.item)
          /\ gpg_calls' = gpg_calls \o e.calls
          /\ log' = log \o e.log
    /\ widx' = widx + 1
    /\ UNCHANGED <<script, pc, out_state, out_rows, folder, num_processes,
                   input_files, gpg_world, next_task, running, decrypted,
                   note_args, card_dirs, card_number, brand, reprompt>>

\* one turn of the export loop in which export_bank_card raises: nothing
\* catches the exception and main ends with it
CardExportRaise ==
    /\ script = "card" /\ pc = "export"
    /\ widx <= Len(card_dirs)
    /\ LET e == export_bank_card(card_dirs[widx])
       IN /\ ~e.ok
          /\ gpg_calls' = gpg_calls \o e.calls
          /\ log' = log \o e.log
    /\ pc' = "crashed"
    /\ UNCHANGED <<script, out_state, out_rows, folder, num_processes,
                   input_files, gpg_world, next_task, running, results,
                   decrypted, widx, note_args, card_dirs, card_number, brand,
                   reprompt>>

\* the loop is over: the items are dumped to the output file
CardWrite ==
    /\ script = "card" /\ pc = "export"
    /\ widx > Len(card_dirs)
    /\ out_state' = "closed"
    /\ out_rows' = results
    /\ log' = Append(log, LogRec("INFO", "Successfully wrote %s bank card details to -> %s .", EmptyStr))
    /\ pc' = "done"
    /\ UNCHANGED <<script, folder, num_processes, input_files, gpg_world,
                   next_task, running, results, decrypted, widx, gpg_calls,
                   note_args, card_dirs, card_number, brand, reprompt>>

\* the state after the input directories are parsed
InitCard ==
    /\ script = "card" /\ pc = "start"
    /\ out_state \in {"absent", "exists", "dir"}
    /\ out_rows = << >>
    /\ folder = EmptyStr
    /\ num_processes = 1
    /\ input_files = << >>
    /\ gpg_world = << >>
    /\ next_task = 1 /\ running = {}
    /\ results = << >>
    /\ decrypted = << >> /\ widx = 1
    /\ gpg_calls = << >> /\ log = << >>
    /\ note_args = << >>
    /\ card_dirs \in DistinctSeqs(CardFixtures, MaxDirs) \ { << >> }
    /\ card_number = EmptyStr /\ brand = ""
    /\ reprompt = FALSE

NextCard ==
    \/ CardRejectOutput \/ CardSanityFail \/ CardSanityOk \/ CardExportOk
    \/ CardExportRaise \/ CardWrite

(***************************************************************************)
(* determine_card_type on its own.                                         *)
(***************************************************************************)
CardPrefixes ==
    { <<"4">>, <<"5">>, <<"3","4">>, <<"3","7">>, <<"3">>, <<"3","5">>,
      <<"6">>, <<"1">> }

CardNumbers == { PadNumber(p, n) : p \in CardPrefixes, n \in 11..MaxCardLen }

\* determine_card_type(card_number) is called and returns
DetermineCardType ==
    /\ script = "brand" /\ pc = "call"
    /\ brand' = determine_card_type(card_number)
    /\ pc' = "returned"
    /\ UNCHANGED <<script, out_state, out_rows, folder, num_processes,
                   input_files, gpg_world, next_task, running, results,
                   decrypted, widx, gpg_calls, log, note_args, card_dirs,
                   card_number, reprompt>>

InitBrand ==
    /\ script = "brand" /\ pc = "call"
    /\ out_state = "absent" /\ out_rows = << >>
    /\ folder = EmptyStr /\ num_processes = 1
    /\ input_files = << >> /\ gpg_world = << >>
    /\ next_task = 1 /\ running = {} /\ results = << >>
    /\ decrypted = << >> /\ widx = 1
    /\ gpg_calls = << >> /\ log = << >>
    /\ note_args = << >> /\ card_dirs = << >>
    /\ card_number \in CardNumbers /\ brand = ""
    /\ reprompt = FALSE

NextBrand == DetermineCardType

SpecBrand == InitBrand /\ [][NextBrand]_vars

SpecCard == InitCard /\ [][NextCard]_vars

(***************************************************************************)
(* passnotes2bitwarden.py                                                  *)
(***************************************************************************)
\* the name of a note: the file name without its last suffix, with dots,
\* dashes and underscores turned into spaces, capitalized
note_name(note_path) ==
    Capitalize(ReplaceChar(ReplaceChar(ReplaceChar(PathStem(note_path),
                                                   ".", " "), "-", " "), "_", " "))

\* export_note(note_path), gpg answering res, then main's reprompt override:
\* the dictionary and the records logged; gpg is always invoked
export_note(note_path, res, reprompt_) ==
    LET sn == short_name_plain(note_path)
        d == decode_gpg_file(note_path, res)
    IN [item |-> [type |-> 2,
                  reprompt |-> IF reprompt_ THEN 1 ELSE 0,
                  name |-> note_name(note_path),
                  notes |-> IF d.value = None THEN None ELSE d.value.text,
                  secureNote |-> [type |-> 0],
                  favorite |-> FALSE,
                  fields |-> << >>,
                  card |-> None],
        log |-> <<LogRec("INFO", "Exporting note details from -> %s ...", sn)>>
                \o d.log
                \o <<LogRec("INFO", "Exported note details from -> %s .", sn)>>]

\* the files main exports: the inputs that are files, then the *.gpg files
\* found under the inputs that are directories
collect_inputs(args) ==
    LET files == SelectSeq(args, LAMBDA a : a.kind = "file")
        dirs == SelectSeq(args, LAMBDA a : a.kind = "dir")
    IN [k \in 1..Len(files) |-> files[k].path]
       \o Flatten([k \in 1..Len(dirs) |-> dirs[k].found])

(***************************************************************************)
(* The inputs of the note exporter.                                        *)
(***************************************************************************)
NotesDir == <<"n","o","t","e","s">>
WifiGpg == <<"w","i","f","i",".","g","p","g">>
TodoGpg == <<"t","o","d","o","-","l","i","s","t",".","v","2",".","g","p","g">>
NopeGpg == <<"n","o","p","e",".","g","p","g">>
NoteText == <<"w","p","a",":"," ","x","\n">>

\* the note files of the store
NoteFiles == { <<StoreDir, NotesDir, WifiGpg>>, <<StoreDir, NotesDir, TodoGpg>> }

\* the values -i can be given: files, a directory holding them, a path that
\* does not exist
NoteArgs ==
    { [path |-> <<StoreDir, NotesDir, WifiGpg>>, kind |-> "file", found |-> << >>],
      [path |-> <<StoreDir, NotesDir, TodoGpg>>, kind |-> "file", found |-> << >>],
      [path |-> <<StoreDir, NotesDir>>, kind |-> "dir",
       found |-> << <<StoreDir, NotesDir, WifiGpg>>, <<StoreDir, NotesDir, TodoGpg>> >>],
      [path |-> <<StoreDir, NopeGpg>>, kind |-> "missing", found |-> << >>] }

\* what gpg can answer for a note
NoteOutcomes ==
    { GpgResult(2, EmptyStr), GpgResult(0, EmptyStr), GpgResult(0, NoteText),
      GpgResult(0, TextBinary) }

(***************************************************************************)
(* passnotes2bitwarden.py: main                                            *)
(***************************************************************************)
\* non_existing_file: argparse rejects an output path that exists
NoteRejectOutput ==
    /\ script = "note" /\ pc = "start"
    /\ out_state # "absent"
    /\ pc' = "crashed"
    /\ UNCHANGED <<script, out_state, out_rows, folder, num_processes,
                   input_files, gpg_world, next_task, running, results,
                   decrypted, widx, gpg_calls, log, note_args, card_dirs,
                   card_number, brand, reprompt>>

\* the GPG files to export are collected
NoteCollectInputs ==
    /\ script = "note" /\ pc = "start"
    /\ out_state = "absent"
    /\ input_files' = collect_inputs(note_args)
    /\ pc' = "export"
    /\ UNCHANGED <<script, out_state, out_rows, folder, num_processes,
                   gpg_world, next_task, running, results, decrypted, widx,
                   gpg_calls, log, note_args, card_dirs, card_number, brand,
                   reprompt>>

\* one turn of the export loop
NoteExport ==
    /\ script = "note" /\ pc = "export"
    /\ widx <= Len(input_files)
    /\ LET e == export_note(input_files[widx], gpg_world[input_files[widx]], reprompt)
       IN /\ results' = Append(results, e.item)
          /\ log' = log \o e.log
    /\ gpg_calls' = Append(gpg_calls, input_files[widx])
    /\ widx' = widx + 1
    /\ UNCHANGED <<script, pc, out_state, out_rows, folder, num_processes,
                   input_files, gpg_world, next_task, running, decrypted,
                   note_args, card_dirs, card_number, brand, reprompt>>

\* the loop is over: the items are dumped to the output file
NoteWrite ==
    /\ script = "note" /\ pc = "export"
    /\ widx > Len(input_files)
    /\ out_state' = "closed"
    /\ out_rows' = results
    /\ log' = Append(log, LogRec("INFO", "Successfully wrote %s notes to -> %s .", EmptyStr))
    /\ pc' = "done"
    /\ UNCHANGED <<script, folder, num_processes, input_files, gpg_world,
                   next_task, running, results, decrypted, widx, gpg_calls,
                   note_args, card_dirs, card_number, brand, reprompt>>

\* the state after argument parsing
InitNote ==
    /\ script = "note" /\ pc = "start"
    /\ out_state \in {"absent", "exists", "dir"}
    /\ out_rows = << >>
    /\ folder = EmptyStr
    /\ num_processes = 1
    /\ input_files = << >>
    /\ gpg_world \in [NoteFiles -> NoteOutcomes]
    /\ next_task = 1 /\ running = {}
    /\ results = << >>
    /\ decrypted = << >> /\ widx = 1
    /\ gpg_calls = << >> /\ log = << >>
    /\ note_args \in DistinctSeqs(NoteArgs, MaxFiles) \ { << >> }
    /\ card_dirs = << >>
    /\ card_number = EmptyStr /\ brand = ""
    /\ reprompt \in BOOLEAN

NextNote == NoteRejectOutput \/ NoteCollectInputs \/ NoteExport \/ NoteWrite

SpecNote == InitNote /\ [][NextNote]_vars

(***************************************************************************)
(* The three exporters.                                                    *)
(***************************************************************************)
SpecLogin == InitLogin /\ [][NextLogin]_vars

Init == InitLogin \/ InitCard \/ InitNote

Next == NextLogin \/ NextCard \/ NextNote

Spec == Init /\ [][Next]_vars

(***************************************************************************)
(* Properties of write_website_password.                                   *)
(***************************************************************************)
\* the file row k of the output was written from (row 1 is the header)
RowPath(k) == decrypted[k - 1].path

\* the text row k of the output was written from
RowText(k) == decrypted[k - 1].text

\* the rows written so far, without the header
DataRows == 2..Len(out_rows)

IsCanonical(path) == PathName(path) = PasswordGpg \/ PathName(path) = PasswdGpg

ParentName(path) == PathName(PathParent(path))

GrandparentName(path) == PathName(PathParent(PathParent(path)))

HasExplicitScheme(s) ==
    \/ StartsWith(s, <<"h","t","t","p",":","/","/">>)
    \/ StartsWith(s, HttpsPrefix)

\* C1: for a file named password.gpg or passwd.gpg the row's login_username
\* is the parent directory name and its login_uri comes from the grandparent
\* directory name: https:// + grandparent when that has a dot, else empty.
C1_CanonicalUriFromGrandparent ==
    \A k \in DataRows :
        IsCanonical(RowPath(k)) =>
            /\ out_rows[k].login_username = ParentName(RowPath(k))
            /\ out_rows[k].login_uri =
                   IF HasChar(GrandparentName(RowPath(k)), ".")
                   THEN HttpsPrefix \o GrandparentName(RowPath(k))
                   ELSE EmptyStr

\* C2: for a file without a canonical name the row's login_uri is empty when
\* the parent directory name has no dot, and https:// + name when it has a
\* dot and no explicit scheme, whatever letters the name begins with.
C2_UriFromParentName ==
    \A k \in DataRows :
        ~IsCanonical(RowPath(k)) =>
            /\ ~HasChar(ParentName(RowPath(k)), ".")
                   => out_rows[k].login_uri = EmptyStr
            /\ (HasChar(ParentName(RowPath(k)), ".")
                    /\ ~HasExplicitScheme(ParentName(RowPath(k))))
                   => out_rows[k].login_uri = HttpsPrefix \o ParentName(RowPath(k))

\* the lines after the first
RestLines(text) == Tail(Split(text, "\n"))

\* "Field n: line" for the number n
Labelled(n, line) == FieldPrefix \o IntToStr(n) \o ColonSpace \o line

\* the fields column when the k-th non-empty line after the first is Field k
FieldsCountingNonEmpty(text) ==
    LET kept == SelectSeq(RestLines(text), LAMBDA l : l # EmptyStr)
    IN Join([k \in 1..Len(kept) |-> Labelled(k, kept[k])], <<",">>)

\* the fields column when the line at 0-based position i after the first,
\* empty lines counted, is Field i
FieldsByPosition(text) ==
    LET lines == RestLines(text)
        all == [i \in 1..Len(lines) |->
                   [line |-> lines[i], entry |-> Labelled(i - 1, lines[i])]]
        kept == SelectSeq(all, LAMBDA e : e.line # EmptyStr)
    IN Join([k \in 1..Len(kept) |-> kept[k].entry], <<",">>)

ScenarioPassword == <<"s","3","c","r","e","t">>
ScenarioFieldOne == <<"F","i","e","l","d"," ","1",":"," ","r","e","c","o","v","e","r","y","c","o","d","e",":"," ","1","2","3">>
ScenarioFieldZero == <<"F","i","e","l","d"," ","0",":"," ","r","e","c","o","v","e","r","y","c","o","d","e",":"," ","1","2","3">>

\* C3 (as stated): the first line is the password and the k-th non-empty line
\* after it is the custom field "Field k: <line>", k = 1, 2, ...; the content
\* "s3cret\nrecoverycode: 123" gives exactly "Field 1: recoverycode: 123".
C3_FieldsNumberedFromOne ==
    \A k \in DataRows :
        /\ out_rows[k].login_password = Split(RowText(k), "\n")[1]
        /\ out_rows[k].fields = FieldsCountingNonEmpty(RowText(k))
        /\ RowText(k) = TextScenario =>
               /\ out_rows[k].login_password = ScenarioPassword
               /\ out_rows[k].fields = ScenarioFieldOne

\* C3 (amended): the first line is the password; a non-empty line after it is
\* the custom field "Field i: <line>" where i is its 0-based position among
\* all the lines after the first, empty ones counted; the fields are joined
\* by commas; the content "s3cret\nrecoverycode: 123" gives exactly
\* "Field 0: recoverycode: 123".
C3_FieldsNumberedByPosition ==
    \A k \in DataRows :
        /\ out_rows[k].login_password = Split(RowText(k), "\n")[1]
        /\ out_rows[k].fields = FieldsByPosition(RowText(k))
        /\ RowText(k) = TextScenario =>
               /\ out_rows[k].login_password = ScenarioPassword
               /\ out_rows[k].fields = ScenarioFieldZero

\* a row was written from the scenario's content
C3_Witness ==
    \E k \in DataRows :
        /\ RowText(k) = TextScenario
        /\ out_rows[k].fields = ScenarioFieldZero

(***************************************************************************)
(* Properties of determine_card_type.                                      *)
(***************************************************************************)
\* C4: determine_card_type returns Visa exactly for a leading 4 and length
\* 13 or 16, Mastercard exactly for a leading 5 and length 16, Amex exactly
\* for a leading 34 or 37 and length 15, and the empty string otherwise.
C4_BrandByPrefixAndLength ==
    (script = "brand" /\ pc = "returned") =>
        LET n == card_number
            visa == StartsWith(n, <<"4">>) /\ Len(n) \in {13, 16}
            mastercard == StartsWith(n, <<"5">>) /\ Len(n) = 16
            amex == (StartsWith(n, <<"3","4">>) \/ StartsWith(n, <<"3","7">>))
                    /\ Len(n) = 15
        IN /\ brand = "Visa" <=> visa
           /\ brand = "Mastercard" <=> mastercard
           /\ brand = "Amex" <=> amex
           /\ brand = "" <=> ~(visa \/ mastercard \/ amex)

(***************************************************************************)
(* Properties of the batch runs.                                           *)
(***************************************************************************)
\* gpg's answer is a failure: a non-zero exit or an empty output
GpgFails(res) == res.returncode # 0 \/ res.stdout = EmptyStr

\* the output path was free when the run began
OutputWasFree == out_state \notin {"exists", "dir"}

\* every file of the card directory decrypts
CardDecrypts(card) == \A r \in card.entries : ~GpgFails(card.gpg[r])

\* the decrypted expiry of the card directory splits on "/" into two parts
ExpiryHasTwoParts(card) ==
    Len(Split(Strip(card.gpg["date"].stdout), "/")) = 2

\* the items of the given card directories, in order
ItemsOf(cards) == [k \in 1..Len(cards) |-> CardItem(cards[k])]

\* C5: a card whose decrypted expiry does not split into month and year
\* yields no record and a reported failure, and the run does not crash: the
\* other card directories are still exported and written to the output.
C5_MalformedExpiryIsolated ==
    (/\ script = "card"
     /\ OutputWasFree
     /\ SanityChecksPass(card_dirs)
     /\ \A k \in 1..Len(card_dirs) : CardDecrypts(card_dirs[k])
     /\ \E k \in 1..Len(card_dirs) : ~ExpiryHasTwoParts(card_dirs[k]))
    => /\ pc # "crashed"
       /\ pc = "done" =>
             /\ out_rows = ItemsOf(SelectSeq(card_dirs, ExpiryHasTwoParts))
             /\ \E k \in 1..Len(log) : log[k].level = "ERROR"

\* gpg's answer for a file it was invoked on
GpgAnswer(p) ==
    IF script = "card"
    THEN LET card == CHOOSE c \in Range(card_dirs) : c.path = PathParent(p)
             role == CHOOSE r \in AllRoles : RolePath(card, r) = p
         IN CardGpg(card, role)
    ELSE gpg_world[p]

\* the rows of the login files gpg decrypts, in enumeration order
RowsOfDecryptable(files) ==
    LET good == SelectSeq(files, LAMBDA f : ~IsConflictFile(f) /\ ~GpgFails(gpg_world[f]))
    IN [k \in 1..Len(good) |->
           write_website_password(good[k], gpg_world[good[k]].stdout, folder)]

\* C6: in the login, card and note runs a path whose decryption fails
\* contributes no record, the records of all other paths reach the output,
\* and the failure never aborts the run.
C6_DecryptFailureIsolated ==
    /\ (\E k \in 1..Len(gpg_calls) : GpgFails(GpgAnswer(gpg_calls[k])))
           => pc # "crashed"
    /\ (script = "login" /\ pc = "done")
           => Tail(out_rows) = RowsOfDecryptable(input_files)
    /\ (script = "card" /\ pc = "done")
           => out_rows = ItemsOf(SelectSeq(card_dirs, CardDecrypts))
    /\ (script = "note" /\ pc = "done")
           => LET good == SelectSeq(input_files, LAMBDA f : ~GpgFails(gpg_world[f]))
              IN out_rows = [k \in 1..Len(good) |->
                                export_note(good[k], gpg_world[good[k]], reprompt).item]

\* the rows a sequential, in-process map over the same files and the same
\* gpg answers writes
SequentialRows(files) ==
    LET values == [k \in 1..Len(files) |->
                      decrypt_gpg_file(files[k], gpg_world[files[k]]).value]
        kept == SelectSeq(values, LAMBDA v : v # None)
    IN [k \in 1..Len(kept) |->
           write_website_password(kept[k].path, kept[k].text, folder)]

\* C7: for the same files and the same gpg answers the login run writes the
\* same set of records with one worker (in-process map) and with any number
\* N > 1 of pool workers.
C7_SameRecordsForAnyWorkerCount ==
    (script = "login" /\ pc = "done" /\ num_processes >= 1) =>
        { out_rows[k] : k \in DataRows } = Range(SequentialRows(input_files))

\* a pool run ended in which the second task finished before the first and
\* one of two files was decrypted
C7_Witness ==
    /\ script = "login" /\ pc = "done" /\ num_processes > 1
    /\ Len(input_files) = 2
    /\ gpg_calls = <<input_files[2], input_files[1]>>
    /\ Len(out_rows) = 2

\* the name of the file indicates a PDF payload
NameIndicatesPdf(p) == InList(<<".","p","d","f">>, PathSuffixes(p))

\* C8: gpg is never invoked on a file whose name indicates a PDF payload
\* (statement.pdf.gpg): the file is rejected with a reported failure before
\* the invocation and yields no record.
C8_NoGpgOnPdf ==
    script = "login" =>
        /\ \A k \in 1..Len(gpg_calls) : ~NameIndicatesPdf(gpg_calls[k])
        /\ \A k \in DataRows : ~NameIndicatesPdf(RowPath(k))

\* the name of the file contains the synchronization-conflict marker
NameHasConflictMarker(p) ==
    \E i \in 1..Len(PathName(p)) :
        i + 7 <= Len(PathName(p)) /\ SubSeq(PathName(p), i, i + 7) = ConflictStr

Misconfigured ==
    \/ out_state \in {"exists", "dir"}
    \/ script = "login" /\ num_processes <= 0
    \/ script = "card" /\ \E k \in 1..Len(card_dirs) :
           \E r \in {"number", "ccv", "date", "name"} : r \notin card_dirs[k].entries

\* C10: in a fatally misconfigured run gpg is never invoked and no output
\* file is created.
C10_MisconfiguredRunHasNoSideEffects ==
    Misconfigured =>
        /\ gpg_calls = << >>
        /\ out_state \notin {"open", "closed"}
        /\ out_rows = << >>

\* a card run aborted whose first directory is complete, whose second lacks
\* a required file, and whose output path was free
C10_Witness ==
    /\ script = "card" /\ pc = "crashed" /\ out_state = "absent"
    /\ Len(card_dirs) = 2
    /\ CardDirOk(card_dirs[1]) /\ CardDecrypts(card_dirs[1])
    /\ ExpiryHasTwoParts(card_dirs[1])
    /\ "ccv" \notin card_dirs[2].entries

\* the file lies directly in the search root: no directory of the searched
\* tree is above it
InSearchRoot(path) == Len(path) = 2

\* the name of the search root the file was found under
SearchRootName(path) == path[1]

\* the run logged an error about the file
ErrorLoggedFor(path) ==
    \E n \in 1..Len(log) :
        log[n].level = "ERROR" /\ log[n].arg = short_name(path)

\* C11: a .gpg file directly in the search root is unclassifiable: the login
\* run writes no row for it and reports it as a failure, and the name of the
\* search root never becomes the URI, the username or the display name of a
\* row.
C11_RootLevelFileUnclassifiable ==
    script = "login" =>
        /\ \A k \in DataRows :
               /\ ~InSearchRoot(RowPath(k))
               /\ out_rows[k].name # Capitalize(SearchRootName(RowPath(k)))
               /\ out_rows[k].login_username # SearchRootName(RowPath(k))
               /\ out_rows[k].login_uri # SearchRootName(RowPath(k))
        /\ pc = "done" =>
               \A j \in 1..Len(input_files) :
                   InSearchRoot(input_files[j]) => ErrorLoggedFor(input_files[j])

\* what export_note stored as the body of the k-th item: the items are
\* appended in the order of the input files
NoteBodyOf(k) ==
    decode_gpg_file(input_files[k], gpg_world[input_files[k]]).value

\* C12: every record an exporter emits has the required fields of its family
\* present and non-empty: username and password of a login row; cardholder
\* name, number, expiry month and expiry year of a card item; title and body
\* of a note item. An input that would leave one of them empty or missing
\* yields no record.
C12_RequiredFieldsNonEmpty ==
    /\ script = "login" =>
           \A k \in DataRows :
               /\ out_rows[k].login_username # EmptyStr
               /\ out_rows[k].login_password # EmptyStr
    /\ script = "card" =>
           \A k \in 1..Len(out_rows) :
               /\ out_rows[k].card.cardholderName # EmptyStr
               /\ out_rows[k].card.number # EmptyStr
               /\ out_rows[k].card.expMonth # EmptyStr
               /\ out_rows[k].card.expYear # EmptyStr
    /\ script = "note" =>
           \A k \in 1..Len(out_rows) :
               /\ out_rows[k].name # EmptyStr
               /\ NoteBodyOf(k) # None
               /\ NoteBodyOf(k).text # EmptyStr

\* the values a logging record interpolates into its message
Interpolated(rec) == {rec.arg} \cup Range(rec.detail)

\* the record shows a piece of the text: one of its interpolated values is a
\* non-empty contiguous part of it
Leaks(rec, text) ==
    \E v \in Interpolated(rec) : v # EmptyStr /\ Contains(text, v)

\* C13: no logging record of a run, info or error, carries decrypted
\* plaintext or a part of it, and every record of a per-item failure names
\* the failing file by its short form, parent directory / file stem.
C13_DiagnosticsCarryNoPlaintext ==
    \A n \in 1..Len(log) :
        /\ \A k \in 1..Len(gpg_calls) :
               ~Leaks(log[n], GpgAnswer(gpg_calls[k]).stdout)
        /\ log[n].level = "ERROR" =>
               \E k \in 1..Len(gpg_calls) :
                   log[n].arg = short_name_plain(gpg_calls[k])

\* gpg was run on the file and the run read a non-empty text from it
SuccessfullyDecrypted(f) ==
    /\ f \in Range(gpg_calls)
    /\ gpg_world[f].returncode = 0
    /\ gpg_world[f].stdout # EmptyStr
    /\ IsDecodable(gpg_world[f].stdout)

\* C14 (as stated): when the login run is over the CSV is the header row and
\* then exactly one data row for every successfully decrypted file and no
\* other row, the rows in the order password_iterator yielded the files.
C14_OneRowPerDecryptedFile ==
    (script = "login" /\ pc = "done") =>
        /\ out_rows[1] = CsvHeader
        /\ \A k \in DataRows : SuccessfullyDecrypted(RowPath(k))
        /\ \A f \in Range(input_files) :
               SuccessfullyDecrypted(f) =>
                   Cardinality({k \in DataRows : RowPath(k) = f}) = 1
        /\ \A k, l \in DataRows :
               k < l => \E i, j \in 1..Len(input_files) :
                            /\ i < j
                            /\ input_files[i] = RowPath(k)
                            /\ input_files[j] = RowPath(l)

\* the CSV the enumeration calls for: the header, then one row for every
\* element of the enumeration that was successfully decrypted, in order
ExpectedCsv ==
    LET ok == SelectSeq(input_files, SuccessfullyDecrypted)
    IN <<CsvHeader>> \o
       [k \in 1..Len(ok) |->
           write_website_password(ok[k], gpg_world[ok[k]].stdout, folder)]

\* C14 (amended): for every worker count the login run completes with, the
\* CSV is the header row and then one data row for every element of
\* password_iterator's enumeration that was successfully decrypted, in
\* enumeration order and with no other row; a file the enumeration yields
\* twice has two rows. While the file is being written it is a prefix of that.
C14_RowsFollowEnumeration ==
    script = "login" =>
        /\ Len(out_rows) <= Len(ExpectedCsv)
        /\ \A k \in 1..Len(out_rows) : out_rows[k] = ExpectedCsv[k]
        /\ pc = "done" => Len(out_rows) = Len(ExpectedCsv)

\* a pool run is over in which the enumeration yielded one file twice and
\* both decryptions succeeded: the file has two rows
C14_Witness ==
    /\ script = "login" /\ pc = "done" /\ num_processes > 1
    /\ Len(input_files) = 2 /\ input_files[1] = input_files[2]
    /\ SuccessfullyDecrypted(input_files[1])
    /\ Len(out_rows) = 3

=============================================================================
